---- MODULE Spec2Model ----
(***************************************************************************)
(* Dataset builder, dataset cache and partitioner of the gesture pipeline  *)
(* (src/src/helpers.py; src/src/video_processing/load_data.py holds the    *)
(* same builder and cache without the dilation step).                      *)
(*                                                                         *)
(* Spec      : the cache directory video_data_models/ and the xml root     *)
(*             under calls of load_video_data_labels and                   *)
(*             create_video_data_labels, with the file system's faults.    *)
(* SplitSpec : get_loaders' split of a permutation into three parts.       *)
(***************************************************************************)
EXTENDS Integers, Sequences, FiniteSets, TLC

VARIABLES
    xml_folder,   \* the xml root: [exists, folders], folders a sequence of sequences of files
    store,        \* video_data_models/: file name -> [kind, obj]
    cachedBy,     \* history: file name -> the call that wrote its present content, as
                  \* {[cfg, fresh]}: its configuration, and whether the xml root is
                  \* still the one it built from
    configs,      \* the configurations the callers of this run use
    last,         \* history: the call just made and what it did; NoCall once the
                  \* cache directory or the xml root changed after it
    events,       \* history: the number of faults of the cache directory and of changes
                  \* of the xml root since the start
    split         \* get_loaders: the permutation and its three parts

vars == <<xml_folder, store, cachedBy, configs, last, events, split>>

(***************************************************************************)
(* Bounds                                                                  *)
(***************************************************************************)
\* get_loaders is run on datasets of 0..MaxLen items
MaxLen == 82
\* up to this length every permutation is drawn, above it the rotations
MaxFullPerm == 4
\* deletions, corruptions and failed writes of cache artifacts, and changes of the xml
\* root, in one run
MaxEvents == 3

(***************************************************************************)
(* Configurations: the four values a caller passes                         *)
(***************************************************************************)
BaseConfig ==
    [interpolation_frames |-> 4, noise_frames |-> 1,
     used_keypoints |-> <<"RWrist", "LWrist">>, matrix_size |-> 32]

Variants ==
    { [BaseConfig EXCEPT !.interpolation_frames = 8],
      [BaseConfig EXCEPT !.noise_frames = 0],
      [BaseConfig EXCEPT !.used_keypoints = <<"RWrist">>],
      [BaseConfig EXCEPT !.matrix_size = 40] }

Configs == {BaseConfig} \cup Variants

CacheKeyFields == {"interpolation_frames", "noise_frames", "used_keypoints", "matrix_size"}

\* the number of CacheKey values in which two configurations differ
Differences(c1, c2) == Cardinality({f \in CacheKeyFields : c1[f] # c2[f]})

(***************************************************************************)
(* The xml root                                                            *)
(***************************************************************************)
XmlFile(name, raw) == [name |-> name, wellformed |-> TRUE, raw |-> raw]
BadFile(name) == [name |-> name, wellformed |-> FALSE, raw |-> 0]

XmlRoots ==
    { [exists |-> FALSE, folders |-> <<>>],
      [exists |-> TRUE, folders |-> <<>>],
      [exists |-> TRUE, folders |-> << <<XmlFile("a.xml", 3), XmlFile("c.xml", 3)>>,
                                       <<XmlFile("b.xml", 4)>>, <<XmlFile("d.xml", 3)>> >>],
      [exists |-> TRUE, folders |-> << <<XmlFile("a.xml", 3)>>, <<XmlFile("e.xml", 2)>> >>],
      [exists |-> TRUE, folders |-> << <<XmlFile("a.xml", 3)>>, <<BadFile("x.xml")>> >>] }

(***************************************************************************)
(* VideoData (video_processing/video_data.py)                              *)
(***************************************************************************)
\* load_xml_file raises ParseError on a malformed file (spec 4.1)
load_xml_file(file) == IF file.wellformed THEN "" ELSE "ParseError"

\* the frames left after conditioning: the raw frames less noise_frames at each end (spec 4.2)
ConditionedLength(file, cfg) ==
    IF file.raw > 2 * cfg.noise_frames THEN file.raw - 2 * cfg.noise_frames ELSE 0

\* get_matrices: one matrix per conditioned frame, a function of the file and of the
\* four constructor arguments (spec 4.3)
get_matrices(file, cfg) ==
    [t \in 1..ConditionedLength(file, cfg) |->
        [file |-> file.name, t |-> t, cfg |-> cfg, dilated |-> FALSE]]

(***************************************************************************)
(* create_video_data_labels                                                *)
(***************************************************************************)
\* CONFIG["use_dilation"]; load_data.py's builder has the dilation disabled
use_dilation == FALSE

\* cv2.dilate(frame, kernel, iterations=1)
dilate(frame) == [frame EXCEPT !.dilated = TRUE]

Raised(err) == [raised |-> err, data |-> <<>>, labels |-> <<>>]
Built(data, labels) == [raised |-> "", data |-> data, labels |-> labels]

\* the inner loop over one folder's files, from file number i on: every frame of every
\* file is appended to data, and the folder's label to labels
RECURSIVE FolderLoop(_, _, _, _, _)
FolderLoop(files, i, label, cfg, acc) ==
    IF acc.raised # "" \/ i > Len(files) THEN acc
    ELSE IF load_xml_file(files[i]) # "" THEN Raised(load_xml_file(files[i]))
    ELSE LET matrix == get_matrices(files[i], cfg)
         IN FolderLoop(files, i + 1, label, cfg,
                       Built(acc.data \o [t \in 1..Len(matrix) |->
                                 IF use_dilation THEN dilate(matrix[t]) ELSE matrix[t]],
                             acc.labels \o [t \in 1..Len(matrix) |-> label]))

\* mutant of RootLoop: the labels counted from 1
RECURSIVE RootLoopFromOne(_, _, _, _)
RootLoopFromOne(folders, j, cfg, acc) ==
    IF acc.raised # "" \/ j > Len(folders) THEN acc
    ELSE RootLoopFromOne(folders, j + 1, cfg, FolderLoop(folders[j], 1, j, cfg, acc))

\* the outer loop: enumerate(os.listdir(xml_folder)), labels counted from 0
RECURSIVE RootLoop(_, _, _, _)
RootLoop(folders, j, cfg, acc) ==
    IF acc.raised # "" \/ j > Len(folders) THEN acc
    ELSE RootLoop(folders, j + 1, cfg, FolderLoop(folders[j], 1, j - 1, cfg, acc))

create_video_data_labels(cfg, root) ==
    IF ~root.exists THEN Raised("FileNotFoundError")
    ELSE RootLoop(root.folders, 1, cfg, Built(<<>>, <<>>))

(***************************************************************************)
(* load_video_data_labels                                                  *)
(***************************************************************************)
\* the file name shared by the two artifacts: str() of three of the four values
CachePath(cfg) ==
    "interpolation_" \o ToString(cfg.interpolation_frames) \o "_noise_"
        \o ToString(cfg.noise_frames) \o "_matrix_size_" \o ToString(cfg.matrix_size) \o ".pkl"

DataFile(cfg) == "data_" \o CachePath(cfg)
LabelsFile(cfg) == "labels_" \o CachePath(cfg)

Absent == [kind |-> "absent", obj |-> <<>>]
Corrupt == [kind |-> "corrupt", obj |-> <<>>]
\* pickle.dump(obj, output); pickle.load gives the array back
Pickled(obj) == [kind |-> "pickle", obj |-> obj]

\* mutant of TryRead: the labels file is never found, as when it is opened under a
\* name the except branch does not write
TryReadLabelsNotFound(st, cfg) ==
    [failed |-> IF st[DataFile(cfg)].kind # "pickle" THEN "data" ELSE "labels",
     data |-> <<>>, labels |-> <<>>, error |-> "FileNotFoundError"]

\* the try block: open and pickle.load the data file, then the labels file; failed names
\* the artifact whose read raised, error what it raised
TryRead(st, cfg) ==
    LET fail(which, f) ==
            [failed |-> which, data |-> <<>>, labels |-> <<>>,
             error |-> IF st[f].kind = "absent" THEN "FileNotFoundError" ELSE "UnpicklingError"]
    IN  IF st[DataFile(cfg)].kind # "pickle" THEN fail("data", DataFile(cfg))
        ELSE IF st[LabelsFile(cfg)].kind # "pickle" THEN fail("labels", LabelsFile(cfg))
        ELSE [failed |-> "", data |-> st[DataFile(cfg)].obj,
              labels |-> st[LabelsFile(cfg)].obj, error |-> ""]

\* mutant of Caught: except FileNotFoundError, which lets a corrupt pickle through
CaughtOnlyMissing(error) == error = "FileNotFoundError"

\* the bare except clause catches whatever the try block raised
Caught(error) == TRUE

\* what the file system can do to the two writes of the except branch
WriteFaults == {"none", "data_open", "data_dump", "labels_open", "labels_dump"}

\* mutant of ExceptBranch: the data file is opened for writing before the build
ExceptBranchOpenFirst(st, cfg, root, wfault) ==
    LET b  == create_video_data_labels(cfg, root)
        df == DataFile(cfg)
        lf == LabelsFile(cfg)
        out(s, err, w) ==
            [store |-> s, raised |-> err, wrote |-> w, build |-> b,
             raisedIn |-> IF err = "" THEN "" ELSE IF b.raised # "" THEN "build" ELSE "write"]
    IN  IF wfault = "data_open" THEN out(st, IF b.raised # "" THEN b.raised ELSE "OSError", {})
        ELSE IF b.raised # "" THEN out([st EXCEPT ![df] = Corrupt], b.raised, {df})
        ELSE IF wfault = "data_dump"
        THEN out([st EXCEPT ![df] = Corrupt], "OSError", {df})
        ELSE IF wfault = "labels_open"
        THEN out([st EXCEPT ![df] = Pickled(b.data)], "OSError", {df})
        ELSE IF wfault = "labels_dump"
        THEN out([st EXCEPT ![df] = Pickled(b.data), ![lf] = Corrupt], "OSError", {df, lf})
        ELSE out([st EXCEPT ![df] = Pickled(b.data), ![lf] = Pickled(b.labels)], "", {df, lf})

\* the except branch: build, then open and dump the data file, then the labels file.
\* An open(.., 'wb') that fails leaves the file as it was; one that succeeds truncates
\* it, and a dump that then fails leaves a partial pickle.
ExceptBranch(st, cfg, root, wfault) ==
    LET b  == create_video_data_labels(cfg, root)
        df == DataFile(cfg)
        lf == LabelsFile(cfg)
        out(s, err, w) ==
            [store |-> s, raised |-> err, wrote |-> w, build |-> b,
             raisedIn |-> IF err = "" THEN "" ELSE IF b.raised # "" THEN "build" ELSE "write"]
    IN  IF b.raised # "" THEN out(st, b.raised, {})
        ELSE IF wfault = "data_open" THEN out(st, "OSError", {})
        ELSE IF wfault = "data_dump"
        THEN out([st EXCEPT ![df] = Corrupt], "OSError", {df})
        ELSE IF wfault = "labels_open"
        THEN out([st EXCEPT ![df] = Pickled(b.data)], "OSError", {df})
        ELSE IF wfault = "labels_dump"
        THEN out([st EXCEPT ![df] = Pickled(b.data), ![lf] = Corrupt], "OSError", {df, lf})
        ELSE out([st EXCEPT ![df] = Pickled(b.data), ![lf] = Pickled(b.labels)], "", {df, lf})

NoCall ==
    [op |-> "none", cfg |-> BaseConfig, read |-> "none", creates |-> 0, built |-> "not called",
     raised |-> "", raisedIn |-> "", returned |-> FALSE, data |-> <<>>, labels |-> <<>>,
     wrote |-> {}, modified |-> {}, repeat |-> FALSE, prevData |-> <<>>, prevLabels |-> <<>>]

\* history: this call repeats the call just made (same four values, that call returned,
\* and neither the cache directory nor the xml root changed in between)
Repeats(cfg) ==
    last.op = "load" /\ last.returned /\ last.cfg = cfg

load_video_data_labels(cfg, wfault) ==
    LET r == TryRead(store, cfg)
        e == ExceptBranch(store, cfg, xml_folder, wfault)
        rebuilds == r.failed # "" /\ Caught(r.error)
        hist == [NoCall EXCEPT !.op = "load", !.cfg = cfg, !.repeat = Repeats(cfg),
                               !.prevData = IF Repeats(cfg) THEN last.data ELSE <<>>,
                               !.prevLabels = IF Repeats(cfg) THEN last.labels ELSE <<>>]
    IN  /\ ~rebuilds => wfault = "none"
        /\ e.build.raised # "" => wfault = "none"
        /\ wfault # "none" => events < MaxEvents
        /\ events' = IF wfault # "none" THEN events + 1 ELSE events
        /\ store' = IF rebuilds THEN e.store ELSE store
        /\ cachedBy' = [f \in DOMAIN store |->
                          IF rebuilds /\ f \in e.wrote
                          THEN IF e.store[f].kind = "pickle"
                               THEN {[cfg |-> cfg, fresh |-> TRUE]} ELSE {}
                          ELSE cachedBy[f]]
        /\ last' = IF r.failed = ""
                   THEN [hist EXCEPT !.read = "hit", !.returned = TRUE,
                                     !.data = r.data, !.labels = r.labels]
                   ELSE IF ~Caught(r.error)
                   THEN [hist EXCEPT !.read = r.failed, !.raised = r.error, !.raisedIn = "read"]
                   ELSE [hist EXCEPT !.read = r.failed, !.creates = 1, !.built = e.build.raised,
                                     !.raised = e.raised, !.raisedIn = e.raisedIn,
                                     !.returned = (e.raised = ""),
                                     !.data = IF e.raised = "" THEN e.build.data ELSE <<>>,
                                     !.labels = IF e.raised = "" THEN e.build.labels ELSE <<>>,
                                     !.wrote = e.wrote,
                                     !.modified = {f \in DOMAIN store : e.store[f] # store[f]}]
        /\ UNCHANGED <<xml_folder, configs, split>>

\* a direct call of the builder (load_data.py's main)
CallCreate(cfg) ==
    LET b == create_video_data_labels(cfg, xml_folder)
    IN  /\ last' = [NoCall EXCEPT !.op = "create", !.cfg = cfg, !.creates = 1, !.built = b.raised,
                                  !.raised = b.raised,
                                  !.raisedIn = IF b.raised = "" THEN "" ELSE "build",
                                  !.returned = (b.raised = ""),
                                  !.data = b.data, !.labels = b.labels]
        /\ UNCHANGED <<xml_folder, store, cachedBy, configs, events, split>>

(***************************************************************************)
(* The environment: the files of the cache directory and of the xml root   *)
(***************************************************************************)
DeleteArtifact(f) ==
    /\ events < MaxEvents
    /\ store[f].kind # "absent"
    /\ events' = events + 1
    /\ store' = [store EXCEPT ![f] = Absent]
    /\ cachedBy' = [cachedBy EXCEPT ![f] = {}]
    /\ last' = NoCall
    /\ UNCHANGED <<xml_folder, configs, split>>

CorruptArtifact(f) ==
    /\ events < MaxEvents
    /\ store[f].kind = "pickle"
    /\ events' = events + 1
    /\ store' = [store EXCEPT ![f] = Corrupt]
    /\ cachedBy' = [cachedBy EXCEPT ![f] = {}]
    /\ last' = NoCall
    /\ UNCHANGED <<xml_folder, configs, split>>

ChangeXml(root) ==
    /\ events < MaxEvents
    /\ root # xml_folder
    /\ xml_folder' = root
    /\ events' = events + 1
    /\ cachedBy' = [f \in DOMAIN store |-> {[w EXCEPT !.fresh = FALSE] : w \in cachedBy[f]}]
    /\ last' = NoCall
    /\ UNCHANGED <<store, configs, split>>

\* the artifacts the run's configurations address
UsedFiles == {DataFile(c) : c \in configs} \cup {LabelsFile(c) : c \in configs}

(***************************************************************************)
(* get_loaders                                                             *)
(***************************************************************************)
Min(a, b) == IF a < b THEN a ELSE b
Max(a, b) == IF a > b THEN a ELSE b

\* Python's seq[start:stop]: a negative index counts from the end, and both are
\* clamped to the sequence
PyIndex(i, n) == IF i < 0 THEN Max(i + n, 0) ELSE Min(i, n)
PySlice(seq, start, stop) ==
    SubSeq(seq, PyIndex(start, Len(seq)) + 1, PyIndex(stop, Len(seq)))

\* int(len(p) / 80) and int((len(p) - train_len) / 2)
TrainLen(n) == n \div 80
OthersLen(n) == (n - TrainLen(n)) \div 2

\* p[:train_len], p[train_len:train_len + others_len], p[-others_len:]
TrainPart(p) == PySlice(p, 0, TrainLen(Len(p)))
ValPart(p) == PySlice(p, TrainLen(Len(p)), TrainLen(Len(p)) + OthersLen(Len(p)))
\* mutant of TestPart: the slice starts one item early
TestPartOneEarly(p) == PySlice(p, -OthersLen(Len(p)) - 1, Len(p))
TestPart(p) == PySlice(p, -OthersLen(Len(p)), Len(p))

\* len(all_data) = n and the permutation p drawn, get_loaders not yet run
Drawn(n, p) == [n |-> n, p |-> p, done |-> FALSE, train |-> <<>>, val |-> <<>>, test |-> <<>>]

\* np.random.permutation(n): the permutations of 0..n-1; above MaxFullPerm items
\* only the rotations are drawn
permutation(n) ==
    IF n <= MaxFullPerm
    THEN {p \in [1..n -> 0..(n - 1)] : \A i, j \in 1..n : p[i] = p[j] => i = j}
    ELSE {[i \in 1..n |-> (i - 1 + r) % n] : r \in 0..(n - 1)}

\* get_loaders on the dataset and the permutation drawn: the index arrays of the
\* three parts
get_loaders ==
    /\ ~split.done
    /\ split' = [split EXCEPT !.done = TRUE, !.train = TrainPart(split.p),
                              !.val = ValPart(split.p), !.test = TestPart(split.p)]
    /\ UNCHANGED <<xml_folder, store, cachedBy, configs, last, events>>

Init ==
    /\ xml_folder \in XmlRoots
    /\ configs \in {{BaseConfig, v} : v \in Variants}
    /\ store = [f \in UsedFiles |-> Absent]
    /\ cachedBy = [f \in UsedFiles |-> {}]
    /\ last = NoCall
    /\ events = 0
    /\ split = Drawn(0, <<>>)

Next ==
    \/ \E cfg \in configs, wfault \in WriteFaults : load_video_data_labels(cfg, wfault)
    \/ \E cfg \in configs : CallCreate(cfg)
    \/ \E f \in UsedFiles : DeleteArtifact(f)
    \/ \E f \in UsedFiles : CorruptArtifact(f)
    \/ \E root \in XmlRoots : ChangeXml(root)

Spec == Init /\ [][Next]_vars

SplitInit ==
    /\ xml_folder = [exists |-> FALSE, folders |-> <<>>]
    /\ configs = {BaseConfig}
    /\ store = [f \in UsedFiles |-> Absent]
    /\ cachedBy = [f \in UsedFiles |-> {}]
    /\ last = NoCall
    /\ events = 0
    /\ split \in UNION {{Drawn(n, p) : p \in permutation(n)} : n \in 0..MaxLen}

SplitNext == get_loaders

SplitSpec == SplitInit /\ [][SplitNext]_vars

(***************************************************************************)
(* Properties                                                              *)
(***************************************************************************)
Range(seq) == {seq[i] : i \in 1..Len(seq)}

\* the two artifacts a call with cfg addresses
Artifacts(cfg) == {DataFile(cfg), LabelsFile(cfg)}

\* C1: a call served from the cache reads artifacts that no configuration differing
\* from its own in exactly one of the four values addresses, and that no call made
\* with such a configuration cached.
C1_DistinctCacheEntries ==
    (last.op = "load" /\ last.read = "hit") =>
        \A c \in configs : Differences(c, last.cfg) = 1 =>
            /\ Artifacts(c) \cap Artifacts(last.cfg) = {}
            /\ \A f \in Artifacts(last.cfg) : \A w \in cachedBy[f] : w.cfg # c

\* C2: a Dataset that load_video_data_labels returns, from artifacts cached while the xml
\* root was what it is now, equals the Dataset create_video_data_labels builds for
\* the call's configuration.
C2_CacheTransparency ==
    (/\ last.op = "load"
     /\ last.returned
     /\ \A f \in Artifacts(last.cfg) : \A w \in cachedBy[f] : w.fresh) =>
        LET b == create_video_data_labels(last.cfg, xml_folder)
        IN  b.raised = "" /\ last.data = b.data /\ last.labels = b.labels

\* C3: a call that repeats the call just made (same four values, nothing changed in
\* between) is served from the cache: it returns the arrays the first call returned,
\* does not invoke the builder and writes nothing.
C3_Idempotence ==
    last.repeat =>
        /\ last.read = "hit"
        /\ last.returned
        /\ last.data = last.prevData
        /\ last.labels = last.prevLabels
        /\ last.creates = 0
        /\ last.wrote = {}
        /\ last.modified = {}

\* a repeated call that returned a non-empty Dataset
C3_Witness ==
    last.repeat /\ last.returned /\ Len(last.data) > 0

\* C4: a call whose read of either artifact failed (missing or corrupt) never ends
\* in the read error: it invokes the builder once, and, the build and the two writes
\* succeeding, leaves both artifacts holding the rebuilt arrays and returns them.
C4_ReadFailureIsMiss ==
    (last.op = "load" /\ last.read \in {"data", "labels"}) =>
        /\ last.raisedIn # "read"
        /\ last.creates = 1
        /\ last.raised = "" =>
            LET b == create_video_data_labels(last.cfg, xml_folder)
            IN  /\ last.returned
                /\ last.data = b.data /\ last.labels = b.labels
                /\ last.wrote = Artifacts(last.cfg)
                /\ store[DataFile(last.cfg)] = Pickled(b.data)
                /\ store[LabelsFile(last.cfg)] = Pickled(b.labels)

\* a call found the data artifact readable and the labels artifact not, and replaced
\* it with the rebuilt labels
C4_Witness ==
    /\ last.op = "load" /\ last.read = "labels" /\ last.returned
    /\ Len(last.labels) > 0
    /\ LabelsFile(last.cfg) \in last.modified

\* C5: every Dataset returned by the builder or by the cache has as many labels as
\* data items.
C5_ParallelArrays ==
    last.returned => Len(last.data) = Len(last.labels)

\* C8: a call whose build ended in a parse error returns no Dataset and leaves every
\* cache artifact as it was.
C8_ParseFailureAborts ==
    (last.op = "load" /\ last.raised = "ParseError") =>
        /\ ~last.returned
        /\ last.data = <<>> /\ last.labels = <<>>
        /\ last.wrote = {}
        /\ last.modified = {}

\* a call failed on a malformed file while the store held an artifact
C8_Witness ==
    /\ last.op = "load" /\ last.raised = "ParseError"
    /\ \E f \in DOMAIN store : store[f].kind # "absent"

\* C9: a build on an xml root that is absent or holds no class folder fails: no
\* Dataset is returned and no artifact is written.
C9_MissingOrEmptyRootFails ==
    (last.creates = 1 /\ (~xml_folder.exists \/ xml_folder.folders = <<>>)) =>
        /\ last.built # ""
        /\ ~last.returned
        /\ last.wrote = {}

\* the Dataset the last call built, when it built one
BuiltDataset == last.creates = 1 /\ last.built = "" /\ last.op = "create"

\* item i of the built Dataset carries the enumeration index of the folder its file is in
LabelledByFolder ==
    \A i \in 1..Len(last.data) :
        /\ i <= Len(last.labels)
        /\ last.labels[i] \in 0..(Len(xml_folder.folders) - 1)
        /\ \E file \in Range(xml_folder.folders[last.labels[i] + 1]) :
               file.name = last.data[i].file

\* C10 as stated: built from k class folders with at least one file each, the labels
\* are exactly 0..k-1, each the enumeration index of its item's folder.
C10_LabelDensity_Files ==
    (BuiltDataset /\ \A j \in 1..Len(xml_folder.folders) : xml_folder.folders[j] # <<>>) =>
        /\ Range(last.labels) = 0..(Len(xml_folder.folders) - 1)
        /\ LabelledByFolder

\* C10 amended: built from k class folders that each hold a file yielding at least
\* one frame, the labels are exactly 0..k-1, each the enumeration index of its item's
\* folder.
C10_LabelDensity ==
    (/\ BuiltDataset
     /\ \A j \in 1..Len(xml_folder.folders) :
            \E file \in Range(xml_folder.folders[j]) : ConditionedLength(file, last.cfg) > 0) =>
        /\ Range(last.labels) = 0..(Len(xml_folder.folders) - 1)
        /\ LabelledByFolder

\* a Dataset built from three class folders, one of them with two files
C10_Witness ==
    /\ BuiltDataset
    /\ Len(xml_folder.folders) = 3
    /\ \A j \in 1..Len(xml_folder.folders) :
           \E file \in Range(xml_folder.folders[j]) : ConditionedLength(file, last.cfg) > 0
    /\ Len(last.labels) > 3

\* C6: the three parts together have len(p) items and hold every index of p.
C6_PartsCoverPermutation ==
    split.done =>
        /\ Len(split.train) + Len(split.val) + Len(split.test) = split.n
        /\ Range(split.train) \cup Range(split.val) \cup Range(split.test) = Range(split.p)

\* C7: no index of the permutation is in two of the three parts.
C7_PartsDisjoint ==
    split.done =>
        /\ Range(split.train) \cap Range(split.val) = {}
        /\ Range(split.train) \cap Range(split.test) = {}
        /\ Range(split.val) \cap Range(split.test) = {}

\* a split with three non-empty parts
C7_Witness ==
    split.done /\ split.train # <<>> /\ split.val # <<>> /\ split.test # <<>>

====
